---- MODULE Spec2Model ----
(***************************************************************************)
(* Hybrid product search: BM25 keyword index (KeywordSearchEngine), dense  *)
(* vector index (SemanticSearchEngine) and the ingestion handlers of the   *)
(* FastAPI application that keep both in step with the MongoDB collection. *)
(***************************************************************************)
EXTENDS Integers, Sequences, FiniteSets, TLC

(***************************************************************************)
(* Bounds of the model                                                     *)
(***************************************************************************)
\* largest count one Counter entry may reach (repeated additions are cut off)
MaxTf == 3

\* number of handler runs that meet a failing store call while the model runs
MaxFailures == 1

\* number of engine methods called in a row when the engines are driven directly
MaxCalls == 3

\* largest number of slots of the vector index (repeated appends are cut off)
MaxSlots == 2

\* number of writes the other service makes to the collection while the model runs
MaxStoreChanges == 1

(***************************************************************************)
(* Universe: document ids, product contents, words                         *)
(***************************************************************************)
Docs == {"d1", "d2"}

\* order in which collection.find() yields the product documents
ScanOrder == <<"d1", "d2">>

\* the _id of the document that holds the persisted BM25 index
ReservedId == "bm25_index"

\* order in which an unfiltered find() yields the documents of the collection
CollectionOrder == ScanOrder \o <<ReservedId>>

\* a document id with no document in the collection
Absent == [present |-> FALSE]

\* the "embedding" field of a document: <<>> when the key is missing, <<v>> when it holds v
NoEmb == <<>>

\* the bm25_index document / the pickle files, when missing
NoBlob == [present |-> FALSE]

NoCache == [present |-> FALSE]

ContentIds == {"A", "B"}

\* the title / category / description fields of a product, as word sequences;
\* a document without these fields yields the empty text for each of them.
\* "C" is a product whose title has a stem that the stemmer changes again.
Product(c) ==
  CASE c = "A" -> [title |-> <<"Cement">>, category |-> <<"the">>, description |-> <<>>]
    [] c = "C" -> [title |-> <<"adhesives">>, category |-> <<>>, description |-> <<>>]
    [] c = "B" -> [title |-> <<"steel", "bars">>, category |-> <<"cement">>,
                   description |-> <<"Steel,">>]
    [] OTHER -> [title |-> <<>>, category |-> <<>>, description |-> <<>>]

STOPWORDS ==
  {"a", "an", "and", "are", "as", "at", "be", "by", "for", "from", "has", "he",
   "in", "is", "it", "its", "of", "on", "that", "the", "to", "was", "will", "with"}

\* text.lower() followed by removal of string.punctuation, word by word
preprocess_word(w) ==
  CASE w = "Cement" -> "cement"
    [] w = "Steel," -> "steel"
    [] OTHER -> w

preprocess_text(text) == [i \in DOMAIN text |-> preprocess_word(text[i])]

\* PorterStemmer().stem on the words of the universe; the stemmer is not
\* idempotent: "adhesives" loses "s" and "ive" and gives "adhes", and "adhes"
\* loses "s" and the final "e" and gives "adh"
stem(w) ==
  CASE w = "bars" -> "bar"
    [] w = "adhesives" -> "adhes"
    [] w = "adhes" -> "adh"
    [] OTHER -> w

Terms == {"cement", "steel", "bar", "adhes"}

tokenize_text(text) ==
  LET pre == preprocess_text(text)
      filtered_tokens == SelectSeq(pre, LAMBDA token : token # "" /\ token \notin STOPWORDS)
  IN  [i \in DOMAIN filtered_tokens |-> stem(filtered_tokens[i])]

\* f"{title} {category} {description}"
FullText(c) == Product(c).title \o Product(c).category \o Product(c).description

TitleText(c) == Product(c).title

\* SentenceTransformer.encode: an opaque deterministic text -> vector function
Encode(text) ==
  LET toks == tokenize_text(text)
  IN  << 1 + Cardinality({i \in DOMAIN toks : toks[i] = "cement"}),
         Cardinality({i \in DOMAIN toks : toks[i] = "steel"}) >>

(***************************************************************************)
(* Dictionary helpers                                                      *)
(***************************************************************************)
EmptyDict == [x \in {} |-> 0]

Put(f, k, v) == [x \in (DOMAIN f) \cup {k} |-> IF x = k THEN v ELSE f[x]]

Pop(f, k) == [x \in (DOMAIN f) \ {k} |-> f[x]]

\* collections.Counter: absent keys count 0
EmptyCounter == [t \in Terms |-> 0]

CounterOf(tokens) == [t \in Terms |-> Cardinality({i \in DOMAIN tokens : tokens[i] = t})]

RECURSIVE SumOver(_, _)
SumOver(c, S) ==
  IF S = {} THEN 0
  ELSE LET t == CHOOSE x \in S : TRUE IN c[t] + SumOver(c, S \ {t})

CounterSum(c) == SumOver(c, DOMAIN c)

(***************************************************************************)
(* Document store (MongoDB collection) and failure injection               *)
(***************************************************************************)
\* A call site of the store driver or of the cache directory: the name of the
\* call and, for calls made once per document inside a loop, the document being
\* processed.
Site(name) == <<name, "-">>

\* the failure patterns of one handler run over its call sites S: no call fails,
\* exactly one call fails, or every call of the run fails
FailureSets(S) == {{}} \cup {{s} : s \in S} \cup {S}

SiteAt(name, d) == <<name, d>>

\* the dict a find()/find_one() yields for document d (with _id as str)
MaterialOf(st, d) == [id |-> d, content |-> st[d].content, embedding |-> st[d].embedding]

\* collection.find({"_id": {"$ne": k}}) for the ids k of excluded, from position i on
RECURSIVE ScanFrom(_, _, _)
ScanFrom(st, i, excluded) ==
  IF i > Len(CollectionOrder) THEN <<>>
  ELSE IF CollectionOrder[i] \in excluded \/ ~st[CollectionOrder[i]].present
       THEN ScanFrom(st, i + 1, excluded)
       ELSE <<MaterialOf(st, CollectionOrder[i])>> \o ScanFrom(st, i + 1, excluded)

\* get_all_materials with a find() that has no filter
get_all_materials_unfiltered(st) == ScanFrom(st, 1, {})

\* DatabaseManager.get_all_materials: every document but the bm25_index one
get_all_materials(st) == ScanFrom(st, 1, {ReservedId})

\* update_embedding with the update_one call left out
update_embedding_not_persisted(st, d, e) == st

\* DatabaseManager.update_embedding
update_embedding(st, d, e) ==
  IF ~st[d].present THEN st ELSE [st EXCEPT ![d].embedding = <<e>>]

(***************************************************************************)
(* KeywordSearchEngine: state is the record                                *)
(*   [index, docmap, order, term_frequencies, doc_lengths, conn]           *)
(* where order lists the keys of docmap in the order the dict holds them   *)
(***************************************************************************)
\* KeywordSearchEngine.__init__
KwNew == [index |-> EmptyDict, docmap |-> EmptyDict, order |-> <<>>,
          term_frequencies |-> EmptyDict, doc_lengths |-> EmptyDict, conn |-> "none"]

\* "self.docmap[doc_id] = material": a new key goes to the end, a known key keeps its place
SetDoc(kw, doc_id, material) ==
  [kw EXCEPT !.docmap = Put(kw.docmap, doc_id, material),
             !.order = IF doc_id \in DOMAIN kw.docmap THEN @ ELSE Append(@, doc_id)]

\* DatabaseManager.connect / disconnect as seen through db_manager.collection
connect(kw) == [kw EXCEPT !.conn = "open"]

disconnect(kw) == [kw EXCEPT !.conn = IF @ = "none" THEN "none" ELSE "closed"]

\* "if self.db_manager.collection is None: self.db_manager.connect()"
ensure_connected(kw) == IF kw.conn = "none" THEN connect(kw) ELSE kw

_add_document(kw, doc_id, text) ==
  LET tokens == tokenize_text(text)
      tokset == {tokens[i] : i \in DOMAIN tokens}
      old    == IF doc_id \in DOMAIN kw.term_frequencies
                THEN kw.term_frequencies[doc_id] ELSE EmptyCounter
      cnt    == CounterOf(tokens)
  IN  [kw EXCEPT
        !.doc_lengths = Put(kw.doc_lengths, doc_id, Len(tokens)),
        !.index = [t \in (DOMAIN kw.index) \cup tokset |->
                     IF t \in tokset
                     THEN (IF t \in DOMAIN kw.index THEN kw.index[t] ELSE {}) \cup {doc_id}
                     ELSE kw.index[t]],
        !.term_frequencies = Put(kw.term_frequencies, doc_id,
                                 [t \in Terms |-> old[t] + cnt[t]])]

\* _remove_document with the loop over the posting sets left out
_remove_document_keeps_postings(kw, doc_id) ==
  [kw EXCEPT
    !.term_frequencies = Pop(kw.term_frequencies, doc_id),
    !.doc_lengths = Pop(kw.doc_lengths, doc_id)]

\* _remove_document with the pop of term_frequencies left out
_remove_document_keeps_tf(kw, doc_id) ==
  LET kept == {t \in DOMAIN kw.index :
                 ~(doc_id \in kw.index[t] /\ kw.index[t] \ {doc_id} = {})}
  IN  [kw EXCEPT
        !.index = [t \in kept |-> kw.index[t] \ {doc_id}],
        !.doc_lengths = Pop(kw.doc_lengths, doc_id)]

_remove_document(kw, doc_id) ==
  LET kept == {t \in DOMAIN kw.index :
                 ~(doc_id \in kw.index[t] /\ kw.index[t] \ {doc_id} = {})}
  IN  [kw EXCEPT
        !.index = [t \in kept |-> kw.index[t] \ {doc_id}],
        !.term_frequencies = Pop(kw.term_frequencies, doc_id),
        !.doc_lengths = Pop(kw.doc_lengths, doc_id)]

RECURSIVE BuildFrom(_, _, _)
BuildFrom(kw, ms, i) ==
  IF i > Len(ms) THEN kw
  ELSE LET material == ms[i]
           withDoc  == SetDoc(kw, material.id, material)
       IN  BuildFrom(_add_document(withDoc, material.id, FullText(material.content)), ms, i + 1)

\* KeywordSearchEngine.build on a successful scan of the store
build(kw, st) == BuildFrom(kw, get_all_materials(st), 1)

\* list(v) for a posting set and set(doc_ids) back
RECURSIVE ListFrom(_, _)
ListFrom(S, i) ==
  IF i > Len(ScanOrder) THEN <<>>
  ELSE (IF ScanOrder[i] \in S THEN <<ScanOrder[i]>> ELSE <<>>) \o ListFrom(S, i + 1)

ToList(S) == ListFrom(S, 1)

ToSet(l) == {l[i] : i \in DOMAIN l}

\* the index_data document written by _save_to_mongodb
BlobOf(kw) ==
  [present |-> TRUE,
   inverted_index |-> [t \in DOMAIN kw.index |-> ToList(kw.index[t])],
   term_frequencies |-> kw.term_frequencies,
   doc_lengths |-> kw.doc_lengths]

\* KeywordSearchEngine._save_to_mongodb: a failing upsert is swallowed
_save_to_mongodb(kw, blb, F, site) == IF site \in F THEN blb ELSE BlobOf(kw)

\* KeywordSearchEngine.save: the four pickle files
save(kw) ==
  [present |-> TRUE, index |-> kw.index, docmap |-> kw.docmap, order |-> kw.order,
   term_frequencies |-> kw.term_frequencies, doc_lengths |-> kw.doc_lengths]

\* load with the doc_lengths file left unread
load_without_doc_lengths(kw, dsk) ==
  [kw EXCEPT !.index = dsk.index, !.docmap = dsk.docmap, !.order = dsk.order,
             !.term_frequencies = dsk.term_frequencies]

\* KeywordSearchEngine.load with all four files present
load(kw, dsk) ==
  [kw EXCEPT !.index = dsk.index, !.docmap = dsk.docmap, !.order = dsk.order,
             !.term_frequencies = dsk.term_frequencies, !.doc_lengths = dsk.doc_lengths]

\* KeywordSearchEngine._load_from_mongodb: [kw, ok]
_load_from_mongodb(kw0, st, blb, F) ==
  LET kw == ensure_connected(kw0) IN
  IF Site("lfm_find") \in F \/ ~blb.present THEN [kw |-> kw, ok |-> FALSE]
  ELSE LET restored ==
             [kw EXCEPT
               !.index = [t \in DOMAIN blb.inverted_index |-> ToSet(blb.inverted_index[t])],
               !.term_frequencies = blb.term_frequencies,
               !.doc_lengths = blb.doc_lengths]
           ms == get_all_materials(st)
       IN  IF Site("lfm_scan") \in F THEN [kw |-> restored, ok |-> FALSE]
           ELSE [kw |-> [restored EXCEPT
                           !.docmap = [d \in {ms[i].id : i \in DOMAIN ms} |-> MaterialOf(st, d)],
                           !.order = [i \in DOMAIN ms |-> ms[i].id]],
                 ok |-> TRUE]

\* KeywordSearchEngine.initialize: [kw, blob, disk, raised]
kw_initialize(kw0, st, blb, dsk, F) ==
  LET lfm == _load_from_mongodb(connect(kw0), st, blb, F) IN
  IF lfm.ok THEN [kw |-> lfm.kw, blob |-> blb, disk |-> dsk, raised |-> FALSE]
  ELSE IF dsk.present
       THEN [kw |-> load(lfm.kw, dsk), blob |-> blb, disk |-> dsk, raised |-> FALSE]
       ELSE \* FileNotFoundError: build from scratch; an error here leaves the handler
            IF Site("build_scan") \in F
            THEN [kw |-> lfm.kw, blob |-> blb, disk |-> dsk, raised |-> TRUE]
            ELSE LET built == build(lfm.kw, st)
                 IN  [kw |-> built, blob |-> _save_to_mongodb(built, blb, F, Site("save_blob")),
                      disk |-> save(built), raised |-> FALSE]

\* rebuild with the four clear() calls left out
kw_rebuild_keeps_old(kw0, st, blb, dsk, F) ==
  IF Site("build_scan") \in F
  THEN [kw |-> connect(kw0), blob |-> blb, disk |-> dsk, ok |-> FALSE]
  ELSE LET built == build(connect(kw0), st)
       IN  [kw |-> disconnect(built), blob |-> blb, disk |-> save(built), ok |-> TRUE]

\* KeywordSearchEngine.rebuild: [kw, blob, disk, ok]
kw_rebuild(kw0, st, blb, dsk, F) ==
  LET cleared == [connect(kw0) EXCEPT !.index = EmptyDict, !.docmap = EmptyDict, !.order = <<>>,
                                      !.term_frequencies = EmptyDict, !.doc_lengths = EmptyDict]
  IN  IF Site("build_scan") \in F
      THEN [kw |-> cleared, blob |-> blb, disk |-> dsk, ok |-> FALSE]
      ELSE LET built == build(cleared, st)
           IN  [kw |-> disconnect(built), blob |-> blb, disk |-> save(built), ok |-> TRUE]

\* KeywordSearchEngine.add_document: [kw, blob, disk, raised]. A save() that
\* cannot write the cache directory raises before any file is touched and
\* before _save_to_mongodb is reached.
add_document(kw0, st, blb, dsk, doc_id, text, F) ==
  LET kw == ensure_connected(kw0) IN
  IF Site("ad_find") \in F \/ (kw.conn = "closed" /\ Site("closed_client") \in F) \/ ~st[doc_id].present
  THEN [kw |-> kw, blob |-> blb, disk |-> dsk, raised |-> TRUE]
  ELSE LET withDoc == SetDoc(kw, doc_id, MaterialOf(st, doc_id))
           added   == _add_document(withDoc, doc_id, text)
       IN  [kw |-> added,
            blob |-> IF Site("ad_save") \in F THEN blb
                     ELSE _save_to_mongodb(added, blb, F, Site("ad_blob")),
            disk |-> IF Site("ad_save") \in F THEN dsk ELSE save(added),
            raised |-> Site("ad_save") \in F]

\* update_document with the refresh of docmap[doc_id] left out
update_document_stale_docmap(kw0, st, blb, dsk, doc_id, text, F) ==
  LET kw == ensure_connected(kw0) IN
  IF Site("ud_find") \in F \/ (kw.conn = "closed" /\ Site("closed_client") \in F) \/ ~st[doc_id].present
  THEN [kw |-> kw, blob |-> blb, disk |-> dsk, raised |-> TRUE]
  ELSE LET updated == _add_document(_remove_document(kw, doc_id), doc_id, text)
       IN  [kw |-> updated,
            blob |-> IF Site("ud_save") \in F THEN blb
                     ELSE _save_to_mongodb(updated, blb, F, Site("ud_blob")),
            disk |-> IF Site("ud_save") \in F THEN dsk ELSE save(updated),
            raised |-> Site("ud_save") \in F]

\* update_document that answers after _remove_document, before the document is added again
update_document_remove_only(kw0, st, blb, dsk, doc_id, text, F) ==
  LET kw == ensure_connected(kw0) IN
  IF Site("ud_find") \in F \/ (kw.conn = "closed" /\ Site("closed_client") \in F) \/ ~st[doc_id].present
  THEN [kw |-> kw, blob |-> blb, disk |-> dsk, raised |-> TRUE]
  ELSE LET withDoc == SetDoc(kw, doc_id, MaterialOf(st, doc_id))
           updated == _remove_document(withDoc, doc_id)
       IN  [kw |-> updated,
            blob |-> IF Site("ud_save") \in F THEN blb
                     ELSE _save_to_mongodb(updated, blb, F, Site("ud_blob")),
            disk |-> IF Site("ud_save") \in F THEN dsk ELSE save(updated),
            raised |-> Site("ud_save") \in F]

\* KeywordSearchEngine.update_document: [kw, blob, disk, raised]
update_document(kw0, st, blb, dsk, doc_id, text, F) ==
  LET kw == ensure_connected(kw0) IN
  IF Site("ud_find") \in F \/ (kw.conn = "closed" /\ Site("closed_client") \in F) \/ ~st[doc_id].present
  THEN [kw |-> kw, blob |-> blb, disk |-> dsk, raised |-> TRUE]
  ELSE LET withDoc == SetDoc(kw, doc_id, MaterialOf(st, doc_id))
           updated == _add_document(_remove_document(withDoc, doc_id), doc_id, text)
       IN  [kw |-> updated,
            blob |-> IF Site("ud_save") \in F THEN blb
                     ELSE _save_to_mongodb(updated, blb, F, Site("ud_blob")),
            disk |-> IF Site("ud_save") \in F THEN dsk ELSE save(updated),
            raised |-> Site("ud_save") \in F]

(***************************************************************************)
(* SemanticSearchEngine: state is the record [materials, embeddings]       *)
(***************************************************************************)
\* SemanticSearchEngine.__init__: materials = [], embeddings = np.array([])
SemNew == [materials |-> <<>>, embeddings |-> <<>>]

\* "'embedding' in material and material['embedding']"
HasEmbedding(material) == material.embedding # NoEmb /\ material.embedding[1] # <<>>

\* np.vstack([self.embeddings, np.array(embedding)]): raises ValueError on the
\* shape-(0,) array of the constructor and on a row of another dimension
VStack(E, v) == [ok |-> Len(E) > 0 /\ Len(E[1]) = Len(v), val |-> Append(E, v)]

\* position of product_id in materials, 0 when it has no slot
SlotOf(ms, product_id) ==
  IF \E i \in DOMAIN ms : ms[i].id = product_id
  THEN CHOOSE i \in DOMAIN ms : ms[i].id = product_id /\ \A j \in 1..(i - 1) : ms[j].id # product_id
  ELSE 0

\* SemanticSearchEngine._generate_embeddings_batch from item i on:
\* [materials, embeddings, store, raised]
RECURSIVE GenerateFrom(_, _, _, _, _, _)
GenerateFrom(todo, i, ms, es, st, F) ==
  IF i > Len(todo) THEN [materials |-> ms, embeddings |-> es, store |-> st, raised |-> FALSE]
  ELSE LET material  == todo[i]
           embedding == Encode(FullText(material.content))
       IN  IF SiteAt("gen", material.id) \in F
           THEN [materials |-> ms, embeddings |-> es, store |-> st, raised |-> TRUE]
           ELSE GenerateFrom(todo, i + 1,
                             Append(ms, [material EXCEPT !.embedding = <<embedding>>]),
                             Append(es, embedding),
                             update_embedding(st, material.id, embedding), F)

\* "self.materials = ...; self.embeddings = np.array(embeddings_list)" on the
\* outcome gen of the generation: np.array is a matrix only when all rows have
\* one length, numpy 1.24 and later raise ValueError on rows of different
\* lengths, after self.materials was assigned
AssignLoaded(sem, gen) ==
  IF gen.raised THEN [sem |-> sem, store |-> gen.store, raised |-> TRUE]
  ELSE IF \E i, j \in DOMAIN gen.embeddings : Len(gen.embeddings[i]) # Len(gen.embeddings[j])
  THEN [sem |-> [materials |-> gen.materials, embeddings |-> sem.embeddings],
        store |-> gen.store, raised |-> TRUE]
  ELSE [sem |-> [materials |-> gen.materials, embeddings |-> gen.embeddings],
        store |-> gen.store, raised |-> FALSE]

\* SemanticSearchEngine._load_materials_with_embeddings: [sem, store, raised]
_load_materials_with_embeddings(sem, st, F) ==
  IF Site("load_scan") \in F THEN [sem |-> sem, store |-> st, raised |-> TRUE]
  ELSE LET all_materials == get_all_materials(st) IN
       IF Len(all_materials) = 0 THEN [sem |-> sem, store |-> st, raised |-> FALSE]
       ELSE LET with    == SelectSeq(all_materials, HasEmbedding)
                without == SelectSeq(all_materials, LAMBDA m : ~HasEmbedding(m))
            IN  AssignLoaded(sem, GenerateFrom(without, 1, with,
                                               [i \in DOMAIN with |-> with[i].embedding[1]],
                                               st, F))

\* the $unset loop of rebuild_cache from item i on: [store, raised]
RECURSIVE UnsetFrom(_, _, _, _)
UnsetFrom(ms, i, st, F) ==
  IF i > Len(ms) THEN [store |-> st, raised |-> FALSE]
  ELSE IF SiteAt("unset", ms[i].id) \in F THEN [store |-> st, raised |-> TRUE]
       ELSE UnsetFrom(ms, i + 1, [st EXCEPT ![ms[i].id].embedding = NoEmb], F)

\* SemanticSearchEngine.rebuild_cache: [sem, store, ok]
rebuild_cache(sem, st, F) ==
  IF Site("rc_scan") \in F THEN [sem |-> sem, store |-> st, ok |-> FALSE]
  ELSE LET cleared == UnsetFrom(get_all_materials(st), 1, st, F) IN
       IF cleared.raised THEN [sem |-> sem, store |-> cleared.store, ok |-> FALSE]
       ELSE LET loaded == _load_materials_with_embeddings(sem, cleared.store, F)
            IN  [sem |-> loaded.sem, store |-> loaded.store, ok |-> ~loaded.raised]

\* "self.materials.append(material)" followed by the growth of the matrix
AppendRow(sem, material, embedding, emptyChecked) ==
  LET appended == [sem EXCEPT !.materials = Append(sem.materials, material)]
      stacked  == VStack(sem.embeddings, embedding)
  IN  IF emptyChecked /\ Len(sem.embeddings) = 0
      THEN [sem |-> [appended EXCEPT !.embeddings = <<embedding>>], ok |-> TRUE]
      ELSE IF stacked.ok
           THEN [sem |-> [appended EXCEPT !.embeddings = stacked.val], ok |-> TRUE]
           ELSE [sem |-> appended, ok |-> FALSE]

\* SemanticSearchEngine.add_material: [sem, store, ok]
add_material(sem, st, product_id, F) ==
  IF Site("am_find") \in F \/ ~st[product_id].present
  THEN [sem |-> sem, store |-> st, ok |-> FALSE]
  ELSE LET material == MaterialOf(st, product_id) IN
       IF HasEmbedding(material)
       THEN IF SlotOf(sem.materials, product_id) = 0
            THEN LET r == AppendRow(sem, material, material.embedding[1], FALSE)
                 IN  [sem |-> r.sem, store |-> st, ok |-> r.ok]
            ELSE [sem |-> sem, store |-> st, ok |-> TRUE]
       ELSE LET embedding == Encode(FullText(material.content)) IN
            IF Site("am_upd") \in F THEN [sem |-> sem, store |-> st, ok |-> FALSE]
            ELSE LET r == AppendRow(sem, [material EXCEPT !.embedding = <<embedding>>],
                                    embedding, TRUE)
                 IN  [sem |-> r.sem, store |-> update_embedding(st, product_id, embedding),
                      ok |-> r.ok]

\* update_material that drops the old slot and appends the new version at the end
update_material_reappend(sem, st, product_id, F) ==
  IF Site("um_find") \in F \/ ~st[product_id].present
  THEN [sem |-> sem, store |-> st, ok |-> FALSE]
  ELSE LET embedding == Encode(FullText(st[product_id].content))
           material  == [MaterialOf(st, product_id) EXCEPT !.embedding = <<embedding>>]
           st2       == update_embedding(st, product_id, embedding)
           material_index == SlotOf(sem.materials, product_id)
           without(l) == SubSeq(l, 1, material_index - 1)
                           \o SubSeq(l, material_index + 1, Len(l))
           dropped   == [materials |-> without(sem.materials),
                         embeddings |-> without(sem.embeddings)]
       IN  IF Site("um_upd") \in F THEN [sem |-> sem, store |-> st, ok |-> FALSE]
           ELSE LET r == AppendRow(IF material_index # 0 THEN dropped ELSE sem,
                                   material, embedding, TRUE)
                IN  [sem |-> r.sem, store |-> st2, ok |-> r.ok]

\* SemanticSearchEngine.update_material: [sem, store, ok]
update_material(sem, st, product_id, F) ==
  IF Site("um_find") \in F \/ ~st[product_id].present
  THEN [sem |-> sem, store |-> st, ok |-> FALSE]
  ELSE LET embedding == Encode(FullText(st[product_id].content))
           material  == [MaterialOf(st, product_id) EXCEPT !.embedding = <<embedding>>]
           st2       == update_embedding(st, product_id, embedding)
           material_index == SlotOf(sem.materials, product_id)
       IN  IF Site("um_upd") \in F THEN [sem |-> sem, store |-> st, ok |-> FALSE]
           ELSE IF material_index # 0
                THEN LET replaced == [sem EXCEPT !.materials[material_index] = material] IN
                     IF material_index <= Len(sem.embeddings)
                        /\ Len(sem.embeddings[material_index]) = Len(embedding)
                     THEN [sem |-> [replaced EXCEPT !.embeddings[material_index] = embedding],
                           store |-> st2, ok |-> TRUE]
                     ELSE [sem |-> replaced, store |-> st2, ok |-> FALSE]
                ELSE LET r == AppendRow(sem, material, embedding, TRUE)
                     IN  [sem |-> r.sem, store |-> st2, ok |-> r.ok]

(***************************************************************************)
(* Scores: floats as fixed-point integers, Micro units to 1.0              *)
(***************************************************************************)
Micro == 10 ^ 6

\* round(x, 4) of a score
Round4(x) == ((x + 50) \div 100) * 100

\* floor(w * a / b) for 0 <= a <= b, without a product beyond the integer range
MulDiv(w, a, b) == (w \div b) * a + ((w % b) * a) \div b

Min(a, b) == IF a <= b THEN a ELSE b

\* math.log(p / q) for the ratios (2N + 2) / (2n + 1) that two documents allow
LnMicro(p, q) ==
  CASE p = 4 /\ q = 1 -> 1386294
    [] p = 4 /\ q = 3 -> 287682
    [] p = 4 /\ q = 5 -> -223144
    [] p = 6 /\ q = 1 -> 1791759
    [] p = 6 /\ q = 3 -> 693147
    [] p = 6 /\ q = 5 -> 182322

RECURSIVE SqrtIn(_, _, _)
SqrtIn(lo, hi, x) ==
  IF lo = hi THEN lo
  ELSE LET mid == (lo + hi + 1) \div 2
       IN  IF mid * mid <= x THEN SqrtIn(mid, hi, x) ELSE SqrtIn(lo, mid - 1, x)

\* floor of the square root
ISqrt(x) == SqrtIn(0, 46340, x)

\* l[:k]
Take(l, k) == SubSeq(l, 1, Min(k, Len(l)))

Reverse(l) == [i \in DOMAIN l |-> l[Len(l) + 1 - i]]

\* sorted(..., key=score, reverse=True): stable, equal scores keep their order
InsertDesc(l, x) ==
  LET k == Cardinality({i \in DOMAIN l : l[i].score >= x.score})
  IN  SubSeq(l, 1, k) \o <<x>> \o SubSeq(l, k + 1, Len(l))

RECURSIVE SortedDesc(_)
SortedDesc(l) ==
  IF l = <<>> THEN <<>>
  ELSE InsertDesc(SortedDesc(SubSeq(l, 1, Len(l) - 1)), l[Len(l)])

\* np.argsort on a short array: ascending, equal values keep their order
InsertAsc(l, x) ==
  LET k == Cardinality({i \in DOMAIN l : l[i].score <= x.score})
  IN  SubSeq(l, 1, k) \o <<x>> \o SubSeq(l, k + 1, Len(l))

RECURSIVE SortedAsc(_)
SortedAsc(l) ==
  IF l = <<>> THEN <<>>
  ELSE InsertAsc(SortedAsc(SubSeq(l, 1, Len(l) - 1)), l[Len(l)])

(***************************************************************************)
(* KeywordSearchEngine.search and the BM25 formulas                        *)
(***************************************************************************)
\* BM25_K1 = 1.5 and BM25_B = 0.75 as fractions <<numerator, denominator>>
BM25_K1 == <<3, 2>>

BM25_B == <<3, 4>>

\* the average document length as [sum, count]
_get_avg_doc_length(kw) ==
  [sum |-> SumOver(kw.doc_lengths, DOMAIN kw.doc_lengths),
   count |-> Cardinality(DOMAIN kw.doc_lengths)]

get_bm25_idf(kw, term) ==
  LET tokens == tokenize_text(<<term>>) IN
  IF tokens = <<>> THEN 0
  ELSE LET processed_term == tokens[1]
           term_doc_count == IF processed_term \in DOMAIN kw.index
                             THEN Cardinality(kw.index[processed_term]) ELSE 0
           doc_count      == Cardinality(DOMAIN kw.docmap)
       IN  \* (doc_count - term_doc_count + 0.5) / (term_doc_count + 0.5) + 1
           LnMicro(2 * doc_count + 2, 2 * term_doc_count + 1)

\* tf * (K1 + 1) / (tf + K1 * length_norm) as the fraction [num, den]
get_bm25_tf(kw, doc_id, term) ==
  LET tokens == tokenize_text(<<term>>) IN
  IF tokens = <<>> THEN [num |-> 0, den |-> 1]
  ELSE LET processed_term == tokens[1]
           tf  == IF doc_id \in DOMAIN kw.term_frequencies /\ processed_term \in Terms
                  THEN kw.term_frequencies[doc_id][processed_term] ELSE 0
           doc_length == IF doc_id \in DOMAIN kw.doc_lengths THEN kw.doc_lengths[doc_id] ELSE 0
           avg == _get_avg_doc_length(kw)
           \* length_norm = 1 - b + b * (doc_length / avg_doc_length) as ln / ld
           ln  == IF avg.sum = 0 THEN 1
                  ELSE (BM25_B[2] - BM25_B[1]) * avg.sum + BM25_B[1] * doc_length * avg.count
           ld  == IF avg.sum = 0 THEN 1 ELSE BM25_B[2] * avg.sum
       IN  [num |-> tf * (BM25_K1[1] + BM25_K1[2]) * ld,
            den |-> tf * BM25_K1[2] * ld + BM25_K1[1] * ln]

bm25_score(kw, doc_id, term) ==
  LET bm25_tf == get_bm25_tf(kw, doc_id, term)
  IN  (bm25_tf.num * get_bm25_idf(kw, term)) \div bm25_tf.den

\* the loop over query_tokens from token i on
RECURSIVE TotalScore(_, _, _, _)
TotalScore(kw, doc_id, query_tokens, i) ==
  IF i > Len(query_tokens) THEN 0
  ELSE bm25_score(kw, doc_id, query_tokens[i]) + TotalScore(kw, doc_id, query_tokens, i + 1)

\* KeywordSearchEngine.search: the list of [id, content, bm25_score]
kw_search(kw, query, top_k, min_score) ==
  IF DOMAIN kw.docmap = {} THEN <<>>
  ELSE LET query_tokens == tokenize_text(query) IN
       IF query_tokens = <<>> THEN <<>>
       ELSE LET all == [i \in DOMAIN kw.order |->
                          [id |-> kw.order[i],
                           score |-> TotalScore(kw, kw.order[i], query_tokens, 1)]]
                scores == SelectSeq(all, LAMBDA r : r.score >= min_score)
                sorted_docs == Take(SortedDesc(scores), top_k)
            IN  [i \in DOMAIN sorted_docs |->
                   [id |-> sorted_docs[i].id,
                    content |-> kw.docmap[sorted_docs[i].id].content,
                    bm25_score |-> Round4(sorted_docs[i].score)]]

(***************************************************************************)
(* SemanticSearchEngine.search                                             *)
(***************************************************************************)
RECURSIVE DotFrom(_, _, _)
DotFrom(a, b, i) == IF i > Len(a) THEN 0 ELSE a[i] * b[i] + DotFrom(a, b, i + 1)

\* np.dot of two vectors
Dot(a, b) == DotFrom(a, b, 1)

\* dot(row, q) / (norm(row) * norm(q))
CosMicro(row, q) ==
  MulDiv(1000 * Micro, Dot(row, q), ISqrt(Dot(row, row) * Dot(q, q) * Micro))

_cosine_similarity(sem, query_embedding) ==
  [i \in DOMAIN sem.embeddings |-> CosMicro(sem.embeddings[i], query_embedding)]

\* SemanticSearchEngine.search: [raised, results], results the list of [id, content, score]
sem_search(sem, query, top_k, min_score) ==
  IF Len(sem.materials) = 0 THEN [raised |-> FALSE, results |-> <<>>]
  ELSE IF Len(sem.embeddings) = 0
  THEN \* np.dot of the shape-(0,) array with the query vector: ValueError
       [raised |-> TRUE, results |-> <<>>]
  ELSE LET similarities == _cosine_similarity(sem, Encode(query))
           argsort == SortedAsc([i \in DOMAIN similarities |->
                                   [idx |-> i, score |-> similarities[i]]])
           top_indices == Take(Reverse(argsort), top_k)
           hits == SelectSeq(top_indices, LAMBDA r : r.score >= min_score)
       IN  IF \E i \in DOMAIN hits : hits[i].idx > Len(sem.materials)
           THEN \* self.materials[idx]: IndexError
                [raised |-> TRUE, results |-> <<>>]
           ELSE [raised |-> FALSE,
                 results |-> [i \in DOMAIN hits |->
                                [id |-> sem.materials[hits[i].idx].id,
                                 content |-> sem.materials[hits[i].idx].content,
                                 score |-> Round4(hits[i].score)]]]

(***************************************************************************)
(* HybridSearchEngine.search                                               *)
(***************************************************************************)
\* {r['_id']: r.get(field, 0.0) for r in results}: a later record replaces an earlier one
ScoresOf(results, field) ==
  [d \in {results[i].id : i \in DOMAIN results} |->
     LET at == CHOOSE i \in DOMAIN results :
                 results[i].id = d /\ \A j \in DOMAIN results : results[j].id = d => j <= i
     IN  results[at][field]]

\* max(scores.values()) and min(scores.values()) of a non-empty dict
MaxOf(scores) == CHOOSE x \in {scores[d] : d \in DOMAIN scores} : \A d \in DOMAIN scores : scores[d] <= x

MinOf(scores) == CHOOSE x \in {scores[d] : d \in DOMAIN scores} : \A d \in DOMAIN scores : scores[d] >= x

\* weight * normalized score of doc_id, 0 for a document the dict does not hold;
\* the scores are multiples of 100 (rounded to 4 decimals)
Weighted(scores, doc_id, weight) ==
  IF doc_id \notin DOMAIN scores THEN 0
  ELSE IF MaxOf(scores) - MinOf(scores) > 0
       THEN MulDiv(weight, (scores[doc_id] - MinOf(scores)) \div 100,
                   (MaxOf(scores) - MinOf(scores)) \div 100)
       ELSE 0

\* _combine_results dividing each score by the maximum of its list only
_combine_results_max_only(semantic_results, keyword_results, semantic_weight, keyword_weight) ==
  LET semantic_scores == ScoresOf(semantic_results, "score")
      keyword_scores  == ScoresOf(keyword_results, "bm25_score")
      all_doc_ids     == (DOMAIN semantic_scores) \cup (DOMAIN keyword_scores)
      materials_lookup == ScoresOf(semantic_results \o keyword_results, "content")
      WeightedByMaxOnly(scores, doc_id, weight) ==
        IF doc_id \notin DOMAIN scores THEN 0
        ELSE IF MaxOf(scores) > 0
             THEN MulDiv(weight, scores[doc_id] \div 100, MaxOf(scores) \div 100)
             ELSE 0
  IN  [doc_id \in all_doc_ids |->
         [id |-> doc_id,
          content |-> materials_lookup[doc_id],
          semantic_score |-> IF doc_id \in DOMAIN semantic_scores
                             THEN Round4(semantic_scores[doc_id]) ELSE 0,
          keyword_score |-> IF doc_id \in DOMAIN keyword_scores
                            THEN Round4(keyword_scores[doc_id]) ELSE 0,
          combined_score |-> Round4(WeightedByMaxOnly(semantic_scores, doc_id, semantic_weight)
                                     + WeightedByMaxOnly(keyword_scores, doc_id, keyword_weight))]]

\* _combine_results with the two weights applied to the wrong lists
_combine_results_swapped_weights(semantic_results, keyword_results, semantic_weight, keyword_weight) ==
  LET semantic_scores == ScoresOf(semantic_results, "score")
      keyword_scores  == ScoresOf(keyword_results, "bm25_score")
      all_doc_ids     == (DOMAIN semantic_scores) \cup (DOMAIN keyword_scores)
      materials_lookup == ScoresOf(semantic_results \o keyword_results, "content")
  IN  [doc_id \in all_doc_ids |->
         [id |-> doc_id,
          content |-> materials_lookup[doc_id],
          semantic_score |-> IF doc_id \in DOMAIN semantic_scores
                             THEN Round4(semantic_scores[doc_id]) ELSE 0,
          keyword_score |-> IF doc_id \in DOMAIN keyword_scores
                            THEN Round4(keyword_scores[doc_id]) ELSE 0,
          combined_score |-> Round4(Weighted(semantic_scores, doc_id, keyword_weight)
                                     + Weighted(keyword_scores, doc_id, semantic_weight))]]

\* HybridSearchEngine._combine_results: doc id -> record
_combine_results(semantic_results, keyword_results, semantic_weight, keyword_weight) ==
  LET semantic_scores == ScoresOf(semantic_results, "score")
      keyword_scores  == ScoresOf(keyword_results, "bm25_score")
      all_doc_ids     == (DOMAIN semantic_scores) \cup (DOMAIN keyword_scores)
      both            == semantic_results \o keyword_results
      materials_lookup == ScoresOf(both, "content")
  IN  [doc_id \in all_doc_ids |->
         [id |-> doc_id,
          content |-> materials_lookup[doc_id],
          semantic_score |-> IF doc_id \in DOMAIN semantic_scores
                             THEN Round4(semantic_scores[doc_id]) ELSE 0,
          keyword_score |-> IF doc_id \in DOMAIN keyword_scores
                            THEN Round4(keyword_scores[doc_id]) ELSE 0,
          combined_score |-> Round4(Weighted(semantic_scores, doc_id, semantic_weight)
                                     + Weighted(keyword_scores, doc_id, keyword_weight))]]

\* FilterAndSort with reverse=True left out of the sort
FilterAndSort_ascending(combined_scores, top_k, min_score, iteration) ==
  LET ids == SelectSeq(iteration, LAMBDA d : d \in DOMAIN combined_scores)
      values == [i \in DOMAIN ids |->
                   [score |-> combined_scores[ids[i]].combined_score,
                    item |-> combined_scores[ids[i]]]]
      filtered_results == SelectSeq(values, LAMBDA r : r.score >= min_score)
      sorted_results == Take(SortedAsc(filtered_results), top_k)
  IN  [i \in DOMAIN sorted_results |-> sorted_results[i].item]

\* the filter by min_score, the sort by combined_score and the cut to top_k;
\* iteration is the order in which the dict combined_scores yields its values
FilterAndSort(combined_scores, top_k, min_score, iteration) ==
  LET ids == SelectSeq(iteration, LAMBDA d : d \in DOMAIN combined_scores)
      values == [i \in DOMAIN ids |->
                   [score |-> combined_scores[ids[i]].combined_score,
                    item |-> combined_scores[ids[i]]]]
      filtered_results == SelectSeq(values, LAMBDA r : r.score >= min_score)
      sorted_results == Take(SortedDesc(filtered_results), top_k)
  IN  [i \in DOMAIN sorted_results |-> sorted_results[i].item]

\* the part of HybridSearchEngine.search after the two sub-searches
Fuse(semantic, keyword_results, top_k, min_score, semantic_weight, keyword_weight, iteration) ==
  IF semantic.raised THEN [raised |-> TRUE, results |-> <<>>]
  ELSE [raised |-> FALSE,
        results |-> FilterAndSort(_combine_results(semantic.results, keyword_results,
                                                   semantic_weight, keyword_weight),
                                  top_k, min_score, iteration)]

\* HybridSearchEngine.search: [raised, results]
hybrid_search(sem, kw, query, top_k, min_score, semantic_weight, keyword_weight, iteration) ==
  Fuse(sem_search(sem, query, Min(top_k * 3, 50), 0),
       kw_search(kw, query, Min(top_k * 3, 50), 0),
       top_k, min_score, semantic_weight, keyword_weight, iteration)

(***************************************************************************)
(* The running application                                                 *)
(***************************************************************************)
VARIABLES
  store,             \* the collection: _id -> document or Absent
  blob,              \* the document with _id "bm25_index", or NoBlob
  disk,              \* the pickle files of the cache directory, or NoCache
  index,             \* KeywordSearchEngine.index
  docmap,            \* KeywordSearchEngine.docmap
  docorder,          \* the keys of docmap in the order the dict iterates them
  term_frequencies,  \* KeywordSearchEngine.term_frequencies
  doc_lengths,       \* KeywordSearchEngine.doc_lengths
  kwconn,            \* KeywordSearchEngine.db_manager: "none", "open" or "closed"
  materials,         \* SemanticSearchEngine.materials
  embeddings,        \* SemanticSearchEngine.embeddings
  running,           \* the global search_engine is set and initialized
  changes,           \* number of changes made from outside the program so far
  failures,          \* number of handler runs that met a failing store call so far
  calls,             \* number of engine methods called directly so far
  last               \* the operation that produced this state and its outcome

vars == <<store, blob, disk, index, docmap, docorder, term_frequencies, doc_lengths, kwconn,
          materials, embeddings, running, changes, failures, calls, last>>

kwvars == <<index, docmap, docorder, term_frequencies, doc_lengths>>

semvars == <<materials, embeddings>>

KW == [index |-> index, docmap |-> docmap, order |-> docorder, term_frequencies |-> term_frequencies,
       doc_lengths |-> doc_lengths, conn |-> kwconn]

SEM == [materials |-> materials, embeddings |-> embeddings]

SetKw(kw) ==
  /\ index' = kw.index
  /\ docmap' = kw.docmap
  /\ docorder' = kw.order
  /\ term_frequencies' = kw.term_frequencies
  /\ doc_lengths' = kw.doc_lengths
  /\ kwconn' = kw.conn

SetSem(sem) ==
  /\ materials' = sem.materials
  /\ embeddings' = sem.embeddings

\* no Counter entry beyond the bound
WithinBound(sem, kw) ==
  /\ Len(sem.materials) <= MaxSlots
  /\ \A d \in DOMAIN kw.term_frequencies : \A t \in Terms : kw.term_frequencies[d][t] <= MaxTf

SetKwInit ==
  /\ index = KwNew.index
  /\ docmap = KwNew.docmap
  /\ docorder = KwNew.order
  /\ term_frequencies = KwNew.term_frequencies
  /\ doc_lengths = KwNew.doc_lengths
  /\ kwconn = KwNew.conn

StoreDoc(c) == [present |-> TRUE, content |-> c, embedding |-> NoEmb]

\* the collection after a handler: the product documents of st and, under
\* ReservedId, the bm25_index document when blb is there, with whatever
\* embedding field the handler has set on it
Collection(st, blb) ==
  [k \in Docs \cup {ReservedId} |->
     IF k # ReservedId THEN st[k]
     ELSE IF ~blb.present THEN Absent
     ELSE [present |-> TRUE, content |-> "-",
           embedding |-> IF st[k].present THEN st[k].embedding ELSE NoEmb]]

Init ==
  /\ store \in {[k \in Docs \cup {ReservedId} |-> IF k = ReservedId THEN Absent ELSE f[k]] :
                  f \in [Docs -> {Absent} \cup {StoreDoc(c) : c \in ContentIds}]}
  /\ blob = NoBlob
  /\ disk = NoCache
  /\ SetKwInit
  /\ materials = <<>>
  /\ embeddings = <<>>
  /\ running = FALSE
  /\ changes = 0
  /\ failures = 0
  /\ calls = 0
  /\ last = [op |-> "none", doc |-> "-", status |-> 0, repeat |-> FALSE]

\* a find_one through a collection whose MongoClient was closed, made without
\* a connect() because db_manager.collection is not None: PyMongo 3 opens the
\* client again, PyMongo 4 raises InvalidOperation, and no version is pinned.
\* The outcomes a build can produce: {} when the call goes through, the site
\* "closed_client" when it raises.
ClosedClient == IF kwconn = "closed" THEN {{}, {Site("closed_client")}} ELSE {{}}

\* a handler run under failure pattern F uses up one unit of the failure budget
Failing(F) ==
  /\ F # {} => failures < MaxFailures
  /\ failures' = IF F = {} THEN failures ELSE failures + 1

\* repeat: a product-added notification directly after an accepted one for the same id
Outcome(op, d, status) ==
  [op |-> op, doc |-> d, status |-> status,
   repeat |-> op = "added" /\ last.op = "added" /\ last.doc = d /\ last.status = 200]

(***************************************************************************)
(* The other service writing to the collection                             *)
(***************************************************************************)
StoreInsert(d, c) ==
  /\ changes < MaxStoreChanges
  /\ changes' = changes + 1
  /\ ~store[d].present
  /\ store' = [store EXCEPT ![d] = StoreDoc(c)]
  /\ last' = Outcome("store_insert", d, 0)
  /\ UNCHANGED <<blob, disk, kwvars, kwconn, semvars, running, failures, calls>>

StoreEdit(d, c) ==
  /\ changes < MaxStoreChanges
  /\ changes' = changes + 1
  /\ store[d].present
  /\ store[d].content # c
  /\ store' = [store EXCEPT ![d].content = c]
  /\ last' = Outcome("store_edit", d, 0)
  /\ UNCHANGED <<blob, disk, kwvars, kwconn, semvars, running, failures, calls>>

StoreDelete(d) ==
  /\ changes < MaxStoreChanges
  /\ changes' = changes + 1
  /\ store[d].present
  /\ store' = [store EXCEPT ![d] = Absent]
  /\ last' = Outcome("store_delete", d, 0)
  /\ UNCHANGED <<blob, disk, kwvars, kwconn, semvars, running, failures, calls>>

(***************************************************************************)
(* Application lifecycle: lifespan() and HybridSearchEngine.initialize     *)
(***************************************************************************)
StartupSites ==
  {Site("load_scan"), Site("lfm_find"), Site("lfm_scan"), Site("build_scan"), Site("save_blob")}
    \cup {SiteAt("gen", d) : d \in Docs}

\* HybridSearchEngine() then initialize(): [sem, kw, store, blob, disk, raised]
hybrid_initialize(st, blb, dsk, F) ==
  LET sem == _load_materials_with_embeddings(SemNew, st, F)
      kw  == kw_initialize(KwNew, sem.store, blb, dsk, F)
  IN  IF sem.raised
      THEN [sem |-> SemNew, kw |-> KwNew, store |-> sem.store, blob |-> blb, disk |-> dsk,
            raised |-> TRUE]
      ELSE IF kw.raised
           THEN [sem |-> SemNew, kw |-> KwNew, store |-> sem.store, blob |-> blb, disk |-> dsk,
                 raised |-> TRUE]
           ELSE [sem |-> sem.sem, kw |-> kw.kw, store |-> sem.store, blob |-> kw.blob,
                 disk |-> kw.disk, raised |-> FALSE]

Startup ==
  /\ ~running
  /\ \E F \in FailureSets(StartupSites) :
       LET r == hybrid_initialize(store, blob, disk, F) IN
       /\ WithinBound(r.sem, r.kw)
       /\ SetSem(r.sem)
       /\ SetKw(r.kw)
       /\ store' = Collection(r.store, r.blob)
       /\ blob' = r.blob
       /\ disk' = r.disk
       /\ running' = ~r.raised
       /\ Failing(F)
       /\ UNCHANGED <<changes, calls>>
       /\ last' = Outcome("startup", "-", IF r.raised THEN 500 ELSE 200)

\* the process ends; the next start constructs new engines
Shutdown ==
  /\ running
  /\ running' = FALSE
  /\ SetSem(SemNew)
  /\ SetKw(KwNew)
  /\ last' = Outcome("shutdown", "-", 0)
  /\ UNCHANGED <<store, blob, disk, changes, failures, calls>>

(***************************************************************************)
(* HTTP handlers of app/main.py                                            *)
(***************************************************************************)
AddedSites ==
  {Site("wh_find"), Site("am_find"), Site("am_upd"), Site("ad_find"), Site("ad_save"),
   Site("ad_blob")}

UpdatedSites ==
  {Site("wh_find"), Site("um_find"), Site("um_upd"), Site("ud_find"), Site("ud_save"),
   Site("ud_blob")}

RebuildSites ==
  {Site("rc_scan"), Site("load_scan"), Site("build_scan")}
    \cup {SiteAt("unset", d) : d \in Docs} \cup {SiteAt("gen", d) : d \in Docs}

Unchanged(sem, kw, st, blb, dsk, status) ==
  [sem |-> sem, kw |-> kw, store |-> st, blob |-> blb, disk |-> dsk, status |-> status]

\* webhook_product_added with the "already indexed" rejection left out
webhook_product_added_unchecked(sem, kw, st, blb, dsk, product_id, F) ==
  IF Site("wh_find") \in F \/ ~st[product_id].present
  THEN Unchanged(sem, kw, st, blb, dsk, 500)
  ELSE IF TitleText(st[product_id].content) = <<>>
  THEN Unchanged(sem, kw, st, blb, dsk, 400)
  ELSE LET am == add_material(sem, st, product_id, F) IN
       IF ~am.ok THEN Unchanged(am.sem, kw, am.store, blb, dsk, 500)
       ELSE LET ad == add_document(kw, am.store, blb, dsk, product_id,
                                   TitleText(st[product_id].content), F)
            IN  [sem |-> am.sem, kw |-> ad.kw, store |-> am.store, blob |-> ad.blob,
                 disk |-> ad.disk, status |-> IF ad.raised THEN 500 ELSE 200]

\* webhook_product_added: [sem, kw, store, blob, disk, status]
webhook_product_added(sem, kw, st, blb, dsk, product_id, F) ==
  IF Site("wh_find") \in F \/ ~st[product_id].present
  THEN Unchanged(sem, kw, st, blb, dsk, 500)
  ELSE IF st[product_id].embedding # NoEmb
  THEN Unchanged(sem, kw, st, blb, dsk, 400)
  ELSE IF TitleText(st[product_id].content) = <<>>
  THEN Unchanged(sem, kw, st, blb, dsk, 400)
  ELSE LET am == add_material(sem, st, product_id, F) IN
       IF ~am.ok THEN Unchanged(am.sem, kw, am.store, blb, dsk, 500)
       ELSE LET ad == add_document(kw, am.store, blb, dsk, product_id,
                                   TitleText(st[product_id].content), F)
            IN  [sem |-> am.sem, kw |-> ad.kw, store |-> am.store, blob |-> ad.blob,
                 disk |-> ad.disk, status |-> IF ad.raised THEN 500 ELSE 200]

\* webhook_product_updated: [sem, kw, store, blob, disk, status]
webhook_product_updated(sem, kw, st, blb, dsk, product_id, F) ==
  IF Site("wh_find") \in F \/ ~st[product_id].present
  THEN Unchanged(sem, kw, st, blb, dsk, 500)
  ELSE IF st[product_id].embedding = NoEmb
  THEN Unchanged(sem, kw, st, blb, dsk, 400)
  ELSE IF TitleText(st[product_id].content) = <<>>
  THEN Unchanged(sem, kw, st, blb, dsk, 400)
  ELSE LET um == update_material(sem, st, product_id, F) IN
       IF ~um.ok THEN Unchanged(um.sem, kw, um.store, blb, dsk, 500)
       ELSE LET ud == update_document(kw, um.store, blb, dsk, product_id,
                                      TitleText(st[product_id].content), F)
            IN  [sem |-> um.sem, kw |-> ud.kw, store |-> um.store, blob |-> ud.blob,
                 disk |-> ud.disk, status |-> IF ud.raised THEN 500 ELSE 200]

\* rebuild_cache endpoint: [sem, kw, store, blob, disk, status]
rebuild_cache_endpoint(sem, kw, st, blb, dsk, F) ==
  LET semantic == rebuild_cache(sem, st, F)
      keyword  == kw_rebuild(kw, semantic.store, blb, dsk, F)
  IN  [sem |-> semantic.sem, kw |-> keyword.kw, store |-> semantic.store,
       blob |-> keyword.blob, disk |-> keyword.disk,
       status |-> IF semantic.ok /\ keyword.ok THEN 200 ELSE 500]

Apply(r, op, d, F) ==
  /\ Failing(F)
  /\ WithinBound(r.sem, r.kw)
  /\ SetSem(r.sem)
  /\ SetKw(r.kw)
  /\ store' = Collection(r.store, r.blob)
  /\ blob' = r.blob
  /\ disk' = r.disk
  /\ last' = Outcome(op, d, r.status)
  /\ UNCHANGED <<running, changes, calls>>

WebhookProductAdded(d) ==
  /\ running
  /\ \E F \in FailureSets(AddedSites), C \in ClosedClient :
       Apply(webhook_product_added(SEM, KW, store, blob, disk, d, F \cup C), "added", d, F)

WebhookProductUpdated(d) ==
  /\ running
  /\ \E F \in FailureSets(UpdatedSites), C \in ClosedClient :
       Apply(webhook_product_updated(SEM, KW, store, blob, disk, d, F \cup C), "updated", d, F)

RebuildCache ==
  /\ running
  /\ \E F \in FailureSets(RebuildSites) :
       Apply(rebuild_cache_endpoint(SEM, KW, store, blob, disk, F), "rebuild", "-", F)

\* the cache directory is local to the host: a start on another host, or after
\* the directory was cleaned, finds none of the pickle files
CacheLost ==
  /\ changes < MaxStoreChanges
  /\ changes' = changes + 1
  /\ disk.present
  /\ disk' = NoCache
  /\ last' = Outcome("cache_lost", "-", 0)
  /\ UNCHANGED <<store, blob, kwvars, kwconn, semvars, running, failures, calls>>

Next ==
  \/ Startup
  \/ Shutdown
  \/ \E d \in Docs, c \in ContentIds : StoreInsert(d, c)
  \/ \E d \in Docs, c \in ContentIds : StoreEdit(d, c)
  \/ \E d \in Docs : StoreDelete(d)
  \/ CacheLost
  \/ \E d \in Docs : WebhookProductAdded(d)
  \/ \E d \in Docs : WebhookProductUpdated(d)
  \/ RebuildCache

Spec == Init /\ [][Next]_vars

(***************************************************************************)
(* The engines driven directly, one public method per step                 *)
(***************************************************************************)
\* the text arguments a caller may pass to add_document / update_document
Texts == {TitleText(c) : c \in ContentIds} \cup {FullText(c) : c \in ContentIds}

Called ==
  /\ calls < MaxCalls
  /\ calls' = calls + 1

\* text: the text argument of the call, <<>> for a method that takes none
ApplyKw(r, op, d, text, F, ok) ==
  /\ Called
  /\ Failing(F)
  /\ WithinBound(SEM, r.kw)
  /\ SetKw(r.kw)
  /\ store' = Collection(store, r.blob)
  /\ blob' = r.blob
  /\ disk' = r.disk
  /\ last' = Outcome(op, d, IF ok THEN 200 ELSE 500) @@ [text |-> text]
  /\ UNCHANGED <<semvars, running, changes>>

ApplySem(r, op, d, F, ok) ==
  /\ Called
  /\ Failing(F)
  /\ WithinBound(r.sem, KW)
  /\ SetSem(r.sem)
  /\ store' = Collection(r.store, blob)
  /\ last' = Outcome(op, d, IF ok THEN 200 ELSE 500)
  /\ UNCHANGED <<blob, disk, kwvars, kwconn, changes>>

KwInitialize ==
  \E F \in FailureSets({Site("lfm_find"), Site("lfm_scan"), Site("build_scan"),
                        Site("save_blob")}) :
    LET r == kw_initialize(KW, store, blob, disk, F)
    IN  ApplyKw(r, "kw_initialize", "-", <<>>, F, ~r.raised)

\* build() called on its own: the scan needs a connected db_manager
KwBuild ==
  \E F \in FailureSets({Site("build_scan")}) :
    LET raised == kwconn = "none" \/ Site("build_scan") \in F
        r == [kw |-> IF raised THEN KW ELSE build(KW, store), blob |-> blob, disk |-> disk]
    IN  ApplyKw(r, "kw_build", "-", <<>>, F, ~raised)

KwRebuild ==
  \E F \in FailureSets({Site("build_scan")}) :
    LET r == kw_rebuild(KW, store, blob, disk, F)
    IN  ApplyKw(r, "kw_rebuild", "-", <<>>, F, r.ok)

KwAddDocument(d, text) ==
  \E F \in FailureSets({Site("ad_find"), Site("ad_save"), Site("ad_blob")}), C \in ClosedClient :
    LET r == add_document(KW, store, blob, disk, d, text, F \cup C)
    IN  ApplyKw(r, "add_document", d, text, F, ~r.raised)

KwUpdateDocument(d, text) ==
  \E F \in FailureSets({Site("ud_find"), Site("ud_save"), Site("ud_blob")}), C \in ClosedClient :
    LET r == update_document(KW, store, blob, disk, d, text, F \cup C)
    IN  ApplyKw(r, "update_document", d, text, F, ~r.raised)

\* SemanticSearchEngine.initialize: the model is loaded and the connection made
\* before the materials are read
SemInitialize ==
  \E F \in FailureSets({Site("load_scan")} \cup {SiteAt("gen", d) : d \in Docs}) :
    LET r == _load_materials_with_embeddings(SEM, store, F) IN
    /\ Called
    /\ Failing(F)
    /\ WithinBound(r.sem, KW)
    /\ SetSem(r.sem)
    /\ store' = Collection(r.store, blob)
    /\ running' = TRUE
    /\ last' = Outcome("sem_initialize", "-", IF r.raised THEN 500 ELSE 200)
    /\ UNCHANGED <<blob, disk, kwvars, kwconn, changes>>

SemAddMaterial(d) ==
  /\ running
  /\ \E F \in FailureSets({Site("am_find"), Site("am_upd")}) :
       LET r == add_material(SEM, store, d, F)
       IN  ApplySem(r, "add_material", d, F, r.ok) /\ UNCHANGED running

SemUpdateMaterial(d) ==
  /\ running
  /\ \E F \in FailureSets({Site("um_find"), Site("um_upd")}) :
       LET r == update_material(SEM, store, d, F)
       IN  ApplySem(r, "update_material", d, F, r.ok) /\ UNCHANGED running

SemRebuildCache ==
  /\ running
  /\ \E F \in FailureSets({Site("rc_scan"), Site("load_scan")}
                            \cup {SiteAt("unset", d) : d \in Docs}
                            \cup {SiteAt("gen", d) : d \in Docs}) :
       LET r == rebuild_cache(SEM, store, F)
       IN  ApplySem(r, "rebuild_cache", "-", F, r.ok) /\ UNCHANGED running

NextKw ==
  \/ \E d \in Docs, c \in ContentIds : StoreInsert(d, c)
  \/ \E d \in Docs, c \in ContentIds : StoreEdit(d, c)
  \/ \E d \in Docs : StoreDelete(d)
  \/ KwInitialize
  \/ KwBuild
  \/ KwRebuild
  \/ \E d \in Docs, text \in Texts : KwAddDocument(d, text)
  \/ \E d \in Docs, text \in Texts : KwUpdateDocument(d, text)

SpecKw == Init /\ [][NextKw]_vars

NextSem ==
  \/ \E d \in Docs, c \in ContentIds : StoreInsert(d, c)
  \/ \E d \in Docs, c \in ContentIds : StoreEdit(d, c)
  \/ \E d \in Docs : StoreDelete(d)
  \/ SemInitialize
  \/ \E d \in Docs : SemAddMaterial(d)
  \/ \E d \in Docs : SemUpdateMaterial(d)
  \/ SemRebuildCache

SpecSem == Init /\ [][NextSem]_vars

(***************************************************************************)
(* The vector index over a collection whose documents may arrive with an   *)
(* embedding field already set by whoever wrote them                       *)
(***************************************************************************)
\* embedding fields not produced by this model's encoder: the zero vector of
\* the encoder's dimension and a vector of another dimension
ForeignEmbeddings == {<<0, 0>>, <<1, 0, 0>>}

StoreInsertEmbedded(d, c, e) ==
  /\ changes < MaxStoreChanges
  /\ changes' = changes + 1
  /\ ~store[d].present
  /\ store' = [store EXCEPT ![d] = [StoreDoc(c) EXCEPT !.embedding = <<e>>]]
  /\ last' = Outcome("store_insert", d, 0)
  /\ UNCHANGED <<blob, disk, kwvars, kwconn, semvars, running, failures, calls>>

NextForeign ==
  \/ \E d \in Docs, c \in ContentIds : StoreInsert(d, c)
  \/ \E d \in Docs, c \in ContentIds, e \in ForeignEmbeddings : StoreInsertEmbedded(d, c, e)
  \/ \E d \in Docs, c \in ContentIds : StoreEdit(d, c)
  \/ \E d \in Docs : StoreDelete(d)
  \/ SemInitialize
  \/ \E d \in Docs : SemAddMaterial(d)
  \/ \E d \in Docs : SemUpdateMaterial(d)
  \/ SemRebuildCache

SpecForeign == Init /\ [][NextForeign]_vars

(***************************************************************************)
(* Queries against the running application                                 *)
(***************************************************************************)
Queries == {<<"Cement">>, <<"steel", "bars">>, <<"the">>, <<"sand">>}

TopKs == {1, 2}

\* min_score values: 0.0 and the default 0.3 of the API
MinScores == {0, 3 * (Micro \div 10)}

\* <<semantic_weight, keyword_weight>>: the defaults 0.6 / 0.4 and the two pure rankings
Weights == {<<6 * (Micro \div 10), 4 * (Micro \div 10)>>, <<0, Micro>>, <<Micro, 0>>}

\* the orders in which a set of doc ids may be iterated
IterationOrders == {<<"d1", "d2">>, <<"d2", "d1">>}

SearchOps == {"kw_search", "sem_search", "hybrid_search"}

\* a search that pops 'embedding' from the stored documents themselves, the
\* .copy() of each returned document left out
Searched_without_copy(op, status, query, top_k, min_score, weights, results) ==
  /\ running
  /\ last.op \notin SearchOps
  /\ last' = [op |-> op, doc |-> "-", status |-> status, repeat |-> FALSE,
              query |-> query, top_k |-> top_k, min_score |-> min_score,
              weights |-> weights, results |-> results]
  /\ materials' = [i \in DOMAIN materials |->
                     IF \E j \in DOMAIN results : results[j].id = materials[i].id
                     THEN [materials[i] EXCEPT !.embedding = NoEmb] ELSE materials[i]]
  /\ UNCHANGED <<store, blob, disk, kwvars, kwconn, embeddings, running, changes, failures, calls>>

\* A search changes nothing but what the caller receives, so the steps that
\* can follow it are those of the state before it; they are explored from there.
Searched(op, status, query, top_k, min_score, weights, results) ==
  /\ running
  /\ last.op \notin SearchOps
  /\ last' = [op |-> op, doc |-> "-", status |-> status, repeat |-> FALSE,
              query |-> query, top_k |-> top_k, min_score |-> min_score,
              weights |-> weights, results |-> results]
  /\ UNCHANGED <<store, blob, disk, kwvars, kwconn, semvars, running, changes, failures, calls>>

KeywordSearch(query, top_k, min_score) ==
  Searched("kw_search", 200, query, top_k, min_score, <<0, Micro>>,
           kw_search(KW, query, top_k, min_score))

\* the response to a search that returned r: 500 when it raised
Responded(op, r, query, top_k, min_score, weights) ==
  Searched(op, IF r.raised THEN 500 ELSE 200, query, top_k, min_score, weights, r.results)

SemanticSearch(query, top_k, min_score) ==
  Responded("sem_search", sem_search(SEM, query, top_k, min_score),
            query, top_k, min_score, <<Micro, 0>>)

\* GET /search, POST /search: search_engine.search inside try / except Exception
HybridSearch(query, top_k, min_score, weights, iteration) ==
  Responded("hybrid_search",
            hybrid_search(SEM, KW, query, top_k, min_score, weights[1], weights[2], iteration),
            query, top_k, min_score, weights)

\* the collection is the one of Init: the other service is not writing
NextSearch ==
  \/ last.op \notin SearchOps /\ Startup
  \/ last.op \notin SearchOps /\ Shutdown
  \/ last.op \notin SearchOps /\ \E d \in Docs : WebhookProductAdded(d)
  \/ last.op \notin SearchOps /\ \E d \in Docs : WebhookProductUpdated(d)
  \/ last.op \notin SearchOps /\ RebuildCache
  \/ last.op \notin SearchOps
     /\ \E query \in Queries, top_k \in TopKs, min_score \in MinScores :
          KeywordSearch(query, top_k, min_score)
  \/ last.op \notin SearchOps
     /\ \E query \in Queries, top_k \in TopKs, min_score \in MinScores :
          SemanticSearch(query, top_k, min_score)
  \/ last.op \notin SearchOps
     /\ \E query \in Queries, top_k \in TopKs, min_score \in MinScores,
           weights \in Weights, iteration \in IterationOrders :
          HybridSearch(query, top_k, min_score, weights, iteration)

SpecSearch == Init /\ [][NextSearch]_vars

\* a collection without d2, the document that will hold product "C"
InitLookup ==
  /\ Init
  /\ store["d2"] = Absent

\* the steps of NextSearch, with keyword searches for the title of product "C"
NextLookup ==
  \/ last.op \notin SearchOps /\ StoreInsert("d2", "C")
  \/ NextSearch
  \/ last.op \notin SearchOps
     /\ \E top_k \in TopKs, min_score \in MinScores :
          KeywordSearch(<<"adhesives">>, top_k, min_score)

SpecLookup == InitLookup /\ [][NextLookup]_vars

(***************************************************************************)
(* _combine_results applied to the lists two sub-searches can hand to it   *)
(***************************************************************************)
CandidateIds == {"d1", "d2", "d3"}

\* cosine similarities and BM25 scores as the sub-searches return them:
\* not below min_score = 0.0 and rounded to 4 decimals
SemanticScores == {2 * (Micro \div 10), 5 * (Micro \div 10), 9 * (Micro \div 10)}

KeywordScores == {0, 7 * (Micro \div 10), 15 * (Micro \div 10)}

\* the lists of at most three records with distinct ids, highest score first
RankedLists(scores) ==
  {l \in UNION {[1..n -> CandidateIds \X scores] : n \in 0..3} :
     \A i, j \in DOMAIN l : i < j => l[i][1] # l[j][1] /\ l[i][2] >= l[j][2]}

SemanticResults ==
  {[i \in DOMAIN l |-> [id |-> l[i][1], content |-> "A", score |-> l[i][2]]] :
     l \in RankedLists(SemanticScores)}

KeywordResults ==
  {[i \in DOMAIN l |-> [id |-> l[i][1], content |-> "A", bm25_score |-> l[i][2]]] :
     l \in RankedLists(KeywordScores)}

CombineResults(semantic_results, keyword_results, weights) ==
  /\ last.op = "none"
  /\ last' = [op |-> "combine", doc |-> "-", status |-> 200, repeat |-> FALSE,
              semantic_results |-> semantic_results, keyword_results |-> keyword_results,
              weights |-> weights,
              combined |-> _combine_results(semantic_results, keyword_results,
                                            weights[1], weights[2])]
  /\ UNCHANGED <<store, blob, disk, kwvars, kwconn, semvars, running, changes, failures, calls>>

InitCombine == Init /\ \A d \in Docs : ~store[d].present

NextCombine ==
  /\ last.op = "none"
  /\ \E semantic_results \in SemanticResults, keyword_results \in KeywordResults,
        weights \in Weights :
       CombineResults(semantic_results, keyword_results, weights)

SpecCombine == InitCombine /\ [][NextCombine]_vars

(***************************************************************************)
(* One query answered under a rising semantic weight                       *)
(***************************************************************************)
\* the values of semantic_weight, keyword_weight being 1 - semantic_weight
WeightSteps == <<0, 5 * (Micro \div 10), 6 * (Micro \div 10), Micro>>

WideTopKs == {2, 3}

\* orders in which the set all_doc_ids may yield the three candidates; the
\* set is built from the same keys for every weight, so one order per query
CandidateOrders == {<<"d1", "d2", "d3">>, <<"d3", "d2", "d1">>}

\* the hybrid results for the same sub-search lists, one per weight step
WeighResults(semantic_results, keyword_results, top_k, min_score, iteration) ==
  /\ last.op = "none"
  /\ last' = [op |-> "weigh", doc |-> "-", status |-> 200, repeat |-> FALSE,
              semantic_results |-> semantic_results, keyword_results |-> keyword_results,
              top_k |-> top_k, min_score |-> min_score,
              ranked |-> [i \in DOMAIN WeightSteps |->
                            Fuse([raised |-> FALSE, results |-> semantic_results],
                                 keyword_results, top_k, min_score,
                                 WeightSteps[i], Micro - WeightSteps[i], iteration).results]]
  /\ UNCHANGED <<store, blob, disk, kwvars, kwconn, semvars, running, changes, failures, calls>>

\* min_score: the values of MinScores and 0.1867, the 4-decimal rounding of
\* 0.4 * 0.7 / 1.5
NextWeigh ==
  /\ last.op = "none"
  /\ \E semantic_results \in SemanticResults, keyword_results \in KeywordResults,
        top_k \in WideTopKs, min_score \in MinScores \cup {1867 * (Micro \div 10000)},
        iteration \in CandidateOrders :
       WeighResults(semantic_results, keyword_results, top_k, min_score, iteration)

SpecWeigh == InitCombine /\ [][NextWeigh]_vars

(***************************************************************************)
(* Properties                                                              *)
(***************************************************************************)
MaterialIds == {materials[i].id : i \in DOMAIN materials}

IndexedState ==
  <<index, docmap, docorder, term_frequencies, doc_lengths, materials, embeddings>>

\* what a query can observe of the two indexes: postings, term frequencies,
\* lengths, the indexed doc ids and the rows of the vector index
RankingState ==
  <<index, term_frequencies, doc_lengths, DOMAIN docmap,
    [i \in DOMAIN materials |-> materials[i].id], embeddings>>

\* C1: whenever the application is serving, the BM25 index and the vector index
\* hold the same set of doc ids.
CrossIndexConsistency ==
  running => /\ DOMAIN docmap = MaterialIds
             /\ DOMAIN term_frequencies = MaterialIds

\* C2: for every indexed document the counts of term_frequencies[d] add up to
\* doc_lengths[d].
TfSumsToDocLength ==
  \A d \in DOMAIN term_frequencies :
    d \in DOMAIN doc_lengths /\ CounterSum(term_frequencies[d]) = doc_lengths[d]

\* C4: docmap, term_frequencies and doc_lengths have the same key set in every
\* state, a cold start from a stale bm25_index blob included.
DocmapKeysEqualTfKeys ==
  /\ DOMAIN docmap = DOMAIN term_frequencies
  /\ DOMAIN term_frequencies = DOMAIN doc_lengths

\* C5: materials and embeddings have the same number of rows and no doc id
\* occupies two slots of materials.
SlotsConsistent ==
  /\ Len(materials) = Len(embeddings)
  /\ \A i, j \in DOMAIN materials : materials[i].id = materials[j].id => i = j

\* C6: a rebuild that reports failure leaves the in-memory state of both
\* indexes (postings, term frequencies, lengths, indexed doc ids, vector rows)
\* exactly as it was before the rebuild began.
FailedRebuildKeepsState ==
  [][(last'.op = "rebuild" /\ last'.status # 200) => UNCHANGED RankingState]_vars

\* C7: after a rebuild that reports success the bm25_index blob in the store
\* equals the rebuilt in-memory postings, term frequencies and doc lengths.
RebuildPersistsBlob ==
  (last.op = "rebuild" /\ last.status = 200) => blob = BlobOf(KW)

\* C8: an accepted product-updated notification for an indexed document whose
\* store content is the content it was indexed with leaves its term
\* frequencies, its length and its posting memberships unchanged.
UpdateSameContentKeepsBm25 ==
  [][\A d \in Docs :
       (/\ last'.op = "updated" /\ last'.doc = d /\ last'.status = 200
        /\ d \in DOMAIN docmap /\ d \in DOMAIN term_frequencies
        /\ store[d].present /\ docmap[d].content = store[d].content)
       => /\ term_frequencies'[d] = term_frequencies[d]
          /\ doc_lengths'[d] = doc_lengths[d]
          /\ \A t \in Terms : (t \in DOMAIN index' /\ d \in index'[t])
                                <=> (t \in DOMAIN index /\ d \in index[t])]_vars

\* C9: a product-added notification directly after an accepted one for the
\* same doc id adds no slot to materials and changes nothing of the BM25 state.
SecondAddChangesNothing ==
  [][last'.repeat => UNCHANGED IndexedState]_vars

SecondAddWitness ==
  /\ last.repeat
  /\ last.doc \in MaterialIds
  /\ last.doc \in DOMAIN docmap

\* C10: a product-added notification for a document already held by one or
\* both indexes, with the store answering every call, is answered with success
\* and afterwards both indexes hold the document.
AddOfIndexedDocSucceeds ==
  [][\A d \in Docs :
       (/\ last'.op = "added" /\ last'.doc = d
        /\ failures' = failures
        /\ store[d].present
        /\ (d \in MaterialIds \/ d \in DOMAIN docmap))
       => /\ last'.status = 200
          /\ d \in MaterialIds'
          /\ d \in DOMAIN docmap']_vars

\* C3: a document is in the posting set of a term exactly when its term
\* frequency for that term is positive.
PostingsMatchTermFrequencies ==
  \A t \in Terms, d \in Docs :
    (t \in DOMAIN index /\ d \in index[t])
      <=> (d \in DOMAIN term_frequencies /\ term_frequencies[d][t] > 0)

\* an update_document has taken its document out of one posting set and left
\* it in another
PostingsWitness ==
  /\ last.op = "update_document" /\ last.status = 200
  /\ \E t \in DOMAIN index : last.doc \in index[t]
  /\ \E t \in DOMAIN index : last.doc \notin index[t]
  /\ Cardinality(DOMAIN term_frequencies) = 2

\* C11: a product-updated notification for a document that is in the store but
\* missing from one or both indexes, with the store answering every call, is
\* accepted and afterwards both indexes hold the document.
UpdateOfUnindexedDocAdds ==
  [][\A d \in Docs :
       (/\ last'.op = "updated" /\ last'.doc = d
        /\ failures' = failures
        /\ store[d].present
        /\ (d \notin MaterialIds \/ d \notin DOMAIN docmap))
       => /\ last'.status = 200
          /\ d \in MaterialIds'
          /\ d \in DOMAIN docmap'
          /\ d \in DOMAIN term_frequencies']_vars

\* C12: add_document for a doc id that is already indexed reports an error
\* and leaves index, docmap, term_frequencies and doc_lengths unchanged.
AddDocumentOfIndexedDocRejected ==
  [][\A d \in Docs :
       (/\ last'.op = "add_document" /\ last'.doc = d
        /\ d \in DOMAIN docmap /\ d \in DOMAIN term_frequencies)
       => /\ last'.status # 200
          /\ UNCHANGED kwvars]_vars

\* C13: in the state an accepted product-added or product-updated notification
\* for d leaves behind, which every later search reads, d has a slot in
\* materials with its row in embeddings and an entry in docmap and
\* term_frequencies, all holding the content the store held during the write.
WriteVisibleAfterSuccess ==
  \A d \in Docs :
    (last.op \in {"added", "updated"} /\ last.doc = d /\ last.status = 200)
    => /\ d \in DOMAIN docmap
       /\ d \in DOMAIN term_frequencies
       /\ docmap[d].content = store[d].content
       /\ \E i \in DOMAIN materials :
            /\ materials[i].id = d
            /\ materials[i].content = store[d].content
            /\ i \in DOMAIN embeddings
            /\ embeddings[i] = Encode(FullText(store[d].content))

\* an accepted product-updated notification after the other service wrote to the store
WriteVisibleWitness ==
  /\ last.op = "updated" /\ last.status = 200
  /\ changes > 0
  /\ last.doc \in DOMAIN docmap
  /\ docmap[last.doc].content = "B"

IndexedTextIsFullText ==
  [][\A d \in Docs :
       (/\ last'.doc = d /\ last'.status = 200
        /\ \/ last'.op = "updated"
           \/ last'.op = "added" /\ d \notin DOMAIN term_frequencies)
       => /\ d \in DOMAIN term_frequencies'
          /\ term_frequencies'[d] = CounterOf(tokenize_text(FullText(store'[d].content)))]_vars

\* C16: a rebuild that succeeds leaves the BM25 state a build on a newly
\* constructed engine over the same store yields.
RebuildEqualsFreshBuild ==
  [][(last'.op = "kw_rebuild" /\ last'.status = 200)
       => LET fresh == build(connect(KwNew), store)
          IN  /\ index' = fresh.index
              /\ docmap' = fresh.docmap
              /\ docorder' = fresh.order
              /\ term_frequencies' = fresh.term_frequencies
              /\ doc_lengths' = fresh.doc_lengths]_vars

\* a successful rebuild over two documents after earlier calls and a store write
RebuildEqualsFreshBuildWitness ==
  /\ last.op = "kw_rebuild" /\ last.status = 200
  /\ calls >= 2 /\ changes > 0
  /\ Cardinality(DOMAIN docmap) = 2

\* the score attached to the records of a result list, by kind of search
ScoreField(op) ==
  CASE op = "kw_search" -> "bm25_score"
    [] op = "sem_search" -> "score"
    [] op = "hybrid_search" -> "combined_score"

\* position of a doc id in ascending order of ids
IdRank(d) == CHOOSE i \in DOMAIN ScanOrder : ScanOrder[i] = d

\* d holds at least one of the tokens of the query, by the term frequencies
ContainsQueryToken(d, query) ==
  /\ d \in DOMAIN term_frequencies
  /\ \E i \in DOMAIN tokenize_text(query) :
       LET t == tokenize_text(query)[i]
       IN  t \in Terms /\ term_frequencies[d][t] > 0

\* C17: KeywordSearchEngine.search returns no document that holds none of the
\* tokens of the query, whatever min_score is.
KeywordResultHoldsQueryToken ==
  last.op = "kw_search"
  => \A i \in DOMAIN last.results : ContainsQueryToken(last.results[i].id, last.query)

\* C18: every result list is in descending order of score, and records of
\* equal score are in ascending order of doc id.
ResultsOrderedWithIdTieBreak ==
  (last.op \in SearchOps /\ last.status = 200)
  => \A i, j \in DOMAIN last.results :
       i < j => LET si == last.results[i][ScoreField(last.op)]
                    sj == last.results[j][ScoreField(last.op)]
                IN  \/ si > sj
                    \/ si = sj /\ IdRank(last.results[i].id) <= IdRank(last.results[j].id)

\* C19: a query with no token left after tokenization gets the empty list,
\* and no error, from the keyword search and from the hybrid search.
EmptyQueryYieldsEmptyResult ==
  (last.op \in {"kw_search", "hybrid_search"} /\ tokenize_text(last.query) = <<>>)
  => last.status = 200 /\ last.results = <<>>

\* the doc ids of a result list
IdsOf(results) == {results[i].id : i \in DOMAIN results}

\* weight * (s - min) / (max - min) for the score s of d in the list, 0 when
\* the list does not hold d or all its scores are equal
NormalizedShare(results, field, d, weight) ==
  IF d \notin IdsOf(results) THEN 0
  ELSE LET all == {results[i][field] : i \in DOMAIN results}
           hi  == CHOOSE x \in all : \A y \in all : y <= x
           lo  == CHOOSE x \in all : \A y \in all : y >= x
           s   == results[CHOOSE i \in DOMAIN results : results[i].id = d][field]
       IN  IF hi > lo THEN MulDiv(weight, (s - lo) \div 100, (hi - lo) \div 100) ELSE 0

\* C20: _combine_results yields one record for each doc id of the union of
\* its two input lists and for no other id, and the combined score of d is
\* w_sem * norm_sem(d) + w_kw * norm_kw(d), each list min-max normalized on its
\* own, 0 for an absent document and for a list of equal scores (the record
\* carries the value rounded to 4 decimals).
CombineMatchesFormula ==
  last.op = "combine"
  => /\ DOMAIN last.combined = IdsOf(last.semantic_results) \cup IdsOf(last.keyword_results)
     /\ \A d \in DOMAIN last.combined :
          /\ last.combined[d].id = d
          /\ last.combined[d].combined_score =
               Round4(NormalizedShare(last.semantic_results, "score", d, last.weights[1])
                      + NormalizedShare(last.keyword_results, "bm25_score", d, last.weights[2]))

\* three candidates, one of them missing from the keyword list, and a score
\* strictly inside the range of its list
CombineWitness ==
  /\ last.op = "combine"
  /\ Len(last.semantic_results) = 3 /\ Len(last.keyword_results) = 2
  /\ last.weights[1] > 0 /\ last.weights[2] > 0
  /\ \E d \in DOMAIN last.combined :
       /\ d \notin IdsOf(last.keyword_results)
       /\ last.combined[d].combined_score > 0
       /\ last.combined[d].combined_score < last.weights[1]

\* C21: with weights (0, 1) the hybrid result lists its documents in the order
\* of the pure BM25 result for the same query and every combined score is the
\* min-max normalized BM25 score; with weights (1, 0) the same holds for the
\* pure cosine result.
PureWeightFollowsSubSearch ==
  LET \* position of d in a result list that holds it
      PosIn(results, d) == CHOOSE i \in DOMAIN results : results[i].id = d
      \* the hybrid records keep the relative order of the sub-search list and
      \* carry its min-max normalized score
      FollowsSubSearch(results, pure, field) ==
        /\ \A i, j \in DOMAIN results :
             (i < j /\ results[i].id \in IdsOf(pure) /\ results[j].id \in IdsOf(pure))
             => PosIn(pure, results[i].id) < PosIn(pure, results[j].id)
        /\ \A i \in DOMAIN results :
             results[i].combined_score
               = Round4(NormalizedShare(pure, field, results[i].id, Micro))
  IN
  (last.op = "hybrid_search" /\ last.status = 200)
  => /\ last.weights = <<0, Micro>>
        => FollowsSubSearch(last.results,
                            kw_search(KW, last.query, Min(last.top_k * 3, 50), 0),
                            "bm25_score")
     /\ last.weights = <<Micro, 0>>
        => FollowsSubSearch(last.results,
                            sem_search(SEM, last.query, Min(last.top_k * 3, 50), 0).results,
                            "score")

\* the pairs of returned documents that the result lists against the semantic
\* order: b before a although a has the higher semantic score
Discordant(results, semantic_results) ==
  LET PosIn(d) == CHOOSE i \in DOMAIN results : results[i].id = d
  IN  {p \in IdsOf(results) \X IdsOf(results) :
         /\ NormalizedShare(semantic_results, "score", p[1], Micro)
              > NormalizedShare(semantic_results, "score", p[2], Micro)
         /\ PosIn(p[2]) < PosIn(p[1])}

CandidateUnion ==
  _combine_results(sem_search(SEM, last.query, Min(last.top_k * 3, 50), 0).results,
                   kw_search(KW, last.query, Min(last.top_k * 3, 50), 0),
                   last.weights[1], last.weights[2])

AbsentDocAnswered404 ==
  [][\A d \in Docs :
       (/\ last'.op \in {"added", "updated"} /\ last'.doc = d
        /\ failures' = failures
        /\ ~store[d].present)
       => /\ last'.status = 404
          /\ UNCHANGED IndexedState]_vars

\* C25: the bm25_index document is never treated as a product: it is a key of
\* docmap and a slot of materials in no state, and it never carries an
\* embedding.
ReservedKeyNeverDocument ==
  /\ ReservedId \notin DOMAIN docmap
  /\ ReservedId \notin MaterialIds
  /\ store[ReservedId].present => store[ReservedId].embedding = NoEmb

\* a rebuild has scanned the collection while it held the bm25_index document
ReservedKeyWitness ==
  /\ last.op = "rebuild" /\ last.status = 200
  /\ store[ReservedId].present
  /\ DOMAIN docmap # {}
  /\ MaterialIds # {}

\* C26: update_material for a document that has a slot in materials leaves
\* the document in that slot, keeps the number of slots and of rows, and
\* changes no other slot of materials and no other row of embeddings; when it
\* reports success the slot and its row hold the new version.
UpdateMaterialOverwritesInPlace ==
  [][\A d \in Docs :
       (last'.op = "update_material" /\ last'.doc = d /\ d \in MaterialIds)
       => LET slot == SlotOf(materials, d) IN
          /\ Len(materials') = Len(materials)
          /\ Len(embeddings') = Len(embeddings)
          /\ SlotOf(materials', d) = slot
          /\ \A i \in DOMAIN materials : i # slot => materials'[i] = materials[i]
          /\ \A i \in DOMAIN embeddings : i # slot => embeddings'[i] = embeddings[i]
          /\ last'.status = 200
             => /\ materials'[slot].content = store'[d].content
                /\ embeddings'[slot] = Encode(FullText(store'[d].content))]_vars

\* an accepted update of the first of two slots after the document was edited
UpdateMaterialWitness ==
  /\ last.op = "update_material" /\ last.status = 200
  /\ changes > 0
  /\ Len(materials) = 2 /\ Len(embeddings) = 2
  /\ materials[1].id = last.doc
  /\ materials[2].id # last.doc
  /\ materials[1].content # materials[2].content

(***************************************************************************)
(* Failed single-document steps                                            *)
(***************************************************************************)
\* C27: an add_document / update_document that raises, or an add_material /
\* update_material that returns False, for a document the store holds and that
\* the same call answers with success when no fetch and no write fails, leaves
\* the in-memory state of the engine it was called on as it was before the call
FailedStepLeavesIndexUnchanged ==
  [][/\ (/\ last'.op \in {"add_document", "update_document"}
          /\ last'.status = 500
          /\ store[last'.doc].present)
         => UNCHANGED kwvars
     /\ (/\ last'.op = "add_material"
          /\ last'.status = 500
          /\ add_material(SEM, store, last'.doc, {}).ok)
         => UNCHANGED semvars
     /\ (/\ last'.op = "update_material"
          /\ last'.status = 500
          /\ update_material(SEM, store, last'.doc, {}).ok)
         => UNCHANGED semvars]_vars

(***************************************************************************)
(* Rows accepted by the vector index                                       *)
(***************************************************************************)
\* C28: add_material, called on an index that holds at least one row, for a
\* stored and not yet indexed document whose embedding is the zero vector or
\* has another dimension than the rows of the index, reports failure and
\* leaves materials and embeddings unchanged
BadEmbeddingRejected ==
  [][LET IsZero(v) == \A i \in DOMAIN v : v[i] = 0
         \* the vector add_material appends for product_id: the stored embedding
         \* field when the document has one, the encoding of its text otherwise
         EmbeddingToAdd(product_id) ==
           IF HasEmbedding(MaterialOf(store, product_id))
           THEN store[product_id].embedding[1]
           ELSE Encode(FullText(store[product_id].content))
     IN  (/\ last'.op = "add_material"
          /\ store[last'.doc].present
          /\ SlotOf(materials, last'.doc) = 0
          /\ Len(embeddings) > 0
          /\ \/ IsZero(EmbeddingToAdd(last'.doc))
             \/ Len(EmbeddingToAdd(last'.doc)) # Len(embeddings[1]))
         => (last'.status = 500 /\ UNCHANGED semvars)]_vars

(***************************************************************************)
(* Rebuild against the current collection                                  *)
(***************************************************************************)
\* C29: in the state a successful rebuild leaves, the ids of materials and the
\* keys of docmap are both exactly the ids of the product documents in the
\* collection, the empty collection included
RebuildMirrorsStore ==
  LET StoredIds == {d \in Docs : store[d].present} IN
  (last.op = "rebuild" /\ last.status = 200)
    => (MaterialIds = StoredIds /\ DOMAIN docmap = StoredIds)

(***************************************************************************)
(* Incremental maintenance against a build from the collection             *)
(***************************************************************************)
\* C30: in the state an accepted product-added or product-updated notification
\* leaves, the term counts, the length and the postings of the notified
\* document are those a build() on a newly constructed engine over the
\* collection as it is now gives that document
NotifiedEqualsFreshBuild ==
  LET \* the entries of BM25 state kw that concern document d: its term counts,
      \* its length and the terms whose posting set holds it
      Bm25Of(kw, d) ==
        [term_frequencies |-> IF d \in DOMAIN kw.term_frequencies
                              THEN kw.term_frequencies[d] ELSE EmptyCounter,
         doc_lengths |-> IF d \in DOMAIN kw.doc_lengths THEN kw.doc_lengths[d] ELSE 0,
         index |-> {t \in DOMAIN kw.index : d \in kw.index[t]}]
  IN
  (last.op \in {"added", "updated"} /\ last.status = 200)
    => Bm25Of(KW, last.doc) = Bm25Of(build(connect(KwNew), store), last.doc)

(***************************************************************************)
(* update_document replaces the indexed text                               *)
(***************************************************************************)
\* C31: an update_document(d, text) that returns, for a d with entries in the
\* BM25 tables, leaves term_frequencies[d] the token counts of text,
\* doc_lengths[d] the number of its tokens, d in the posting sets of exactly
\* the tokens of text, and no term of index with an empty posting set
UpdateDocumentReplacesText ==
  [][(/\ last'.op = "update_document"
      /\ last'.status = 200
      /\ last'.doc \in DOMAIN term_frequencies)
     => LET d      == last'.doc
            tokens == tokenize_text(last'.text)
        IN  /\ term_frequencies'[d] = CounterOf(tokens)
            /\ doc_lengths'[d] = Len(tokens)
            /\ {t \in DOMAIN index' : d \in index'[t]} = ToSet(tokens)
            /\ \A t \in DOMAIN index :
                 (index[t] = {d} /\ t \notin ToSet(tokens)) => t \notin DOMAIN index']_vars

\* an update that took "cement" out of the only document that held it: the
\* bm25_index blob, whose write failed, still shows the counts of the old text
UpdateDocumentReplacesWitness ==
  /\ last.op = "update_document" /\ last.status = 200
  /\ blob.present
  /\ last.doc \in DOMAIN blob.term_frequencies
  /\ blob.term_frequencies[last.doc]["cement"] > 0
  /\ term_frequencies[last.doc]["cement"] = 0
  /\ term_frequencies[last.doc]["steel"] = 1
  /\ "cement" \notin DOMAIN index

(***************************************************************************)
(* The source of the BM25 tables after initialize                          *)
(***************************************************************************)
\* C32: when initialize() completes at a start of the service, index,
\* term_frequencies and doc_lengths are those of one source: the bm25_index
\* blob when it is present and every store call answers, otherwise the blob,
\* the cache files when they are present, or a build over the store - never
\* a build on top of a partly loaded source
InitializeLoadsOneSource ==
  [][(last'.op = "startup" /\ last'.status = 200)
     => LET tables(kw) == <<kw.index, kw.term_frequencies, kw.doc_lengths>>
            fromBlob == <<[t \in DOMAIN blob.inverted_index |-> ToSet(blob.inverted_index[t])],
                          blob.term_frequencies, blob.doc_lengths>>
            fresh == tables(build(connect(KwNew), store))
        IN  /\ (blob.present /\ failures' = failures) => tables(KW') = fromBlob
            /\ \/ blob.present /\ tables(KW') = fromBlob
               \/ disk.present /\ tables(KW') = tables(disk)
               \/ tables(KW') = fresh]_vars

(***************************************************************************)
(* Every document embedded after a load of the semantic engine             *)
(***************************************************************************)
\* C33: when initialize() or rebuild_cache() of the semantic engine has
\* completed without error over a non-empty store, every document other than
\* the bm25_index one has an embedding saved in the store and holds exactly
\* one slot of materials
LoadEmbedsEveryDocument ==
  (/\ last.op \in {"sem_initialize", "rebuild_cache"}
   /\ last.status = 200
   /\ \E d \in Docs : store[d].present)
  => \A d \in Docs :
       store[d].present
       => /\ HasEmbedding(store[d])
          /\ Cardinality({i \in DOMAIN materials : materials[i].id = d}) = 1

LoadEmbedsEveryDocumentWitness ==
  /\ last.op = "rebuild_cache"
  /\ last.status = 200
  /\ \A d \in Docs : store[d].present /\ HasEmbedding(store[d])
  /\ Len(materials) = Cardinality(Docs)

(***************************************************************************)
(* Ingestion after a rebuild                                               *)
(***************************************************************************)
\* C34: directly after a rebuild() that returned True, an add_document or
\* update_document for a document the store holds succeeds when the store and
\* the cache directory answer every call
RebuiltEngineStillIngests ==
  [][(/\ last.op = "kw_rebuild" /\ last.status = 200
      /\ last'.op \in {"add_document", "update_document"}
      /\ store[last'.doc].present
      /\ failures' = failures)
     => last'.status = 200]_vars

(***************************************************************************)
(* The term a keyword search looks up                                      *)
(***************************************************************************)
\* C35: search looks up each token of tokenize_text(query) as it is, so a
\* returned document whose term_frequencies count one of these tokens has a
\* BM25 score above zero
KeywordLooksUpQueryToken ==
  (last.op = "kw_search" /\ last.status = 200)
  => LET query_tokens == tokenize_text(last.query) IN
     \A i \in DOMAIN last.results :
       LET doc_id == last.results[i].id IN
       (/\ doc_id \in DOMAIN term_frequencies
        /\ \E j \in DOMAIN query_tokens :
             /\ query_tokens[j] \in Terms
             /\ term_frequencies[doc_id][query_tokens[j]] > 0)
       => last.results[i].bm25_score > 0

(***************************************************************************)
(* min_score against the combined score                                    *)
(***************************************************************************)
\* C36: no document whose combined score w_sem * norm_sem + w_kw * norm_kw,
\* before it is rounded, is below min_score is in the hybrid result
NoResultBelowMinScore ==
  last.op = "weigh"
  => \A w \in DOMAIN WeightSteps : \A i \in DOMAIN last.ranked[w] :
       LET doc_id == last.ranked[w][i].id
           exact  == Weighted(ScoresOf(last.semantic_results, "score"), doc_id, WeightSteps[w])
                     + Weighted(ScoresOf(last.keyword_results, "bm25_score"), doc_id,
                                Micro - WeightSteps[w])
       IN  exact >= last.min_score

====
